---------------------------- MODULE Spec2Model ----------------------------
(***************************************************************************)
(* Model of the Instagram content monitor (src/instagram_monitor.py):      *)
(* the posts scan with its duplicate streak, the stories scan, the         *)
(* archive document on disk (load_archive / save_archive /                 *)
(* update_archive), the clear-archive menu and the scan orchestrator.      *)
(*                                                                         *)
(* Text is modelled as sequences of one-character strings, so that         *)
(* str.strip, str.upper, str.rsplit and str.split are computed and not     *)
(* assumed.                                                                *)
(***************************************************************************)
EXTENDS Integers, Sequences, FiniteSets, TLC

(***************************************************************************)
(* Bounds of the model.                                                    *)
(***************************************************************************)
\* longest generic listing output (in lines) the environment produces
MaxFeedLen == 3
\* largest integer duplicate threshold drawn for a scan
MaxThreshold == 3
\* largest scan range (max_range) drawn for a scan
MaxRange == 2

(***************************************************************************)
(* Text helpers: Python str methods on sequences of characters.            *)
(***************************************************************************)
LowerLetters == <<"b", "e", "g", "j", "m", "p", "w", "x">>
UpperLetters == <<"B", "E", "G", "J", "M", "P", "W", "X">>
Digits == {"0", "1", "2", "3", "4", "5", "6", "7", "8", "9"}

\* str.upper() on one character
UpperChar(c) ==
    IF \E i \in 1..Len(LowerLetters) : LowerLetters[i] = c
    THEN UpperLetters[CHOOSE i \in 1..Len(LowerLetters) : LowerLetters[i] = c]
    ELSE c

\* str.lower() on one character
LowerChar(c) ==
    IF \E i \in 1..Len(UpperLetters) : UpperLetters[i] = c
    THEN LowerLetters[CHOOSE i \in 1..Len(UpperLetters) : UpperLetters[i] = c]
    ELSE c

Upper(s) == [i \in 1..Len(s) |-> UpperChar(s[i])]
Lower(s) == [i \in 1..Len(s) |-> LowerChar(s[i])]

\* str.strip(): drop leading and trailing blanks
Strip(s) ==
    LET keep == {i \in 1..Len(s) : s[i] # " "}
    IN  IF keep = {} THEN <<>>
        ELSE SubSeq(s, CHOOSE i \in keep : \A j \in keep : i <= j,
                       CHOOSE i \in keep : \A j \in keep : i >= j)

\* str.startswith(pre)
StartsWith(s, pre) == Len(s) >= Len(pre) /\ SubSeq(s, 1, Len(pre)) = pre

\* sub in s
Contains(s, sub) ==
    \E i \in 0..(Len(s) - Len(sub)) : SubSeq(s, i + 1, i + Len(sub)) = sub

\* s.rsplit(c, 1): <<head, tail>> around the last c, or <<s>> without any c
RSplit1(s, c) ==
    LET at == {i \in 1..Len(s) : s[i] = c}
    IN  IF at = {} THEN <<s>>
        ELSE LET k == CHOOSE i \in at : \A j \in at : i >= j
             IN  <<SubSeq(s, 1, k - 1), SubSeq(s, k + 1, Len(s))>>

\* s.split(c)[0]: the part before the first c
SplitFirst(s, c) ==
    LET at == {i \in 1..Len(s) : s[i] = c}
    IN  IF at = {} THEN s
        ELSE SubSeq(s, 1, (CHOOSE i \in at : \A j \in at : i <= j) - 1)

\* s.replace(c, '')
Remove(s, c) ==
    LET F[i \in 0..Len(s)] ==
            IF i = 0 THEN <<>>
            ELSE IF s[i] = c THEN F[i - 1] ELSE Append(F[i - 1], s[i])
    IN  F[Len(s)]

\* str.isdigit()
IsDigit(s) == Len(s) > 0 /\ \A i \in 1..Len(s) : s[i] \in Digits

\* the elements of a sequence
Range(s) == {s[i] : i \in 1..Len(s)}

\* list(dict.fromkeys(s)): first occurrences, in order
DictFromKeys(s) ==
    LET F[i \in 0..Len(s)] ==
            IF i = 0 THEN <<>>
            ELSE IF s[i] \in Range(F[i - 1]) THEN F[i - 1]
                 ELSE Append(F[i - 1], s[i])
    IN  F[Len(s)]

(***************************************************************************)
(* Listing lines as gallery-dl prints them, and the media suffixes.        *)
(***************************************************************************)
MediaExts == { <<".", "j", "p", "g">>, <<".", "m", "p", "4">>,
               <<".", "w", "e", "b", "p">> }

\* post 1, a sidecar of two media
Line_1_1 == <<"1", "_", "1", ".", "j", "p", "g">>
Line_1_2 == <<"1", "_", "2", ".", "m", "p", "4">>
\* post 2, printed with the simulate prefix
Line_2 == <<"#", " ", "2", ".", "j", "p", "g">>
Line_3 == <<"3", ".", "j", "p", "g">>
Line_4 == <<"4", ".", "j", "p", "g">>
Line_5 == <<"5", ".", "j", "p", "g">>
Line_6 == <<"6", ".", "j", "p", "g">>
\* a line that names no media file
Line_Junk == <<"x">>

\* python None
None == <<"<None>">>

\* lines 318-329 of run_gallery_dl_scan_posts: normalise one output line and
\* split it into filename, full id, post id and media type
ParsePostLine(raw) ==
    LET up == Upper(Strip(raw))
        line == IF StartsWith(up, <<"#", " ">>) THEN SubSeq(up, 3, Len(up)) ELSE up
        parts == RSplit1(line, ".")
        full_id == parts[1]
        ext == IF Len(parts) = 2 THEN Lower(parts[2]) ELSE <<>>
    IN  [ is_media |-> line # <<>> /\ \E e \in MediaExts : Contains(Lower(line), e),
          filename |-> line,
          id |-> full_id,
          post_id |-> SplitFirst(full_id, "_"),
          media_type |-> IF ext = <<"m", "p", "4">> THEN "video" ELSE "image" ]

\* mutant: the archived ids keep their position suffix
DownloadedPostIds_KeepsSuffix(downloaded_ids) ==
    { IF Contains(f, <<".">>) THEN RSplit1(f, ".")[1] ELSE f : f \in downloaded_ids }

\* lines 264-270: the post ids of the archived full ids
DownloadedPostIds(downloaded_ids) ==
    { SplitFirst(IF Contains(f, <<".">>) THEN RSplit1(f, ".")[1] ELSE f, "_") :
        f \in downloaded_ids }


(***************************************************************************)
(* State.                                                                  *)
(***************************************************************************)
VARIABLES
    \* config.MAX_CONSECUTIVE_DUPLICATES: [kind |-> "int" or "str", val |-> n]
    MAX_CONSECUTIVE_DUPLICATES,
    \* run_gallery_dl_scan_posts: its arguments, the captured listing and the
    \* position of the for loop over its lines
    downloaded_ids, max_range, stdout, returncode, line_no,
    \* run_gallery_dl_scan_posts: its local variables (media_list,
    \* duplicate_count, stopped_early, ...)
    scan,
    \* where run_gallery_dl_scan_posts is: "idle", "call", "loop", "returned"
    scan_pc,
    \* what run_gallery_dl_scan_posts returned: media_list, success, stopped_early
    scan_ret

scan_vars == <<MAX_CONSECUTIVE_DUPLICATES, downloaded_ids, max_range, stdout,
               returncode, line_no, scan, scan_pc, scan_ret>>

VARIABLES
    \* the archive document at config.ARCHIVE_FILE:
    \* [kind |-> "missing", "empty", "garbage", "unreadable" or "json", data |-> dict]
    disk,
    \* where the program is: "main_menu", "posts", "stories", "archive_prompt",
    \* "download_prompt", "clear_top", "clear_accounts", "clear_types",
    \* "exited" (main returned) or "crashed" (an exception left main)
    pc,
    \* how the process was started: "menu", "auto", "scan_only", "auto_scan_only"
    launch,
    \* the local variable archive of run_scan_and_download and of clear_archive_menu
    archive,
    \* run_scan_and_download: its arguments and locals
    scan_only_mode, auto_mode, scan_range, acct_idx, new_posts, new_stories,
    account_results,
    \* builtins.REQUEST_SLEEP and builtins.DOWNLOAD_SLEEP:
    \* [kind |-> "pair" or "str", min |-> a, max |-> b]
    REQUEST_SLEEP, DOWNLOAD_SLEEP,
    \* clear_archive_menu: the account picked in the account loop
    menu_account,
    \* history: the call of save_archive made by the step just taken, if any
    last_save,
    \* history: what the main-menu choices and restarts so far have spent
    ops,
    \* history: the external invocations (subprocess.run) made by the step just
    \* taken, in order: [what |-> name, range |-> <<>> or <<start, end>>, ok |-> BOOLEAN]
    invoked,
    \* history: an external invocation of the run in progress has failed
    run_failed,
    \* history: the pacing sleeps (sleep_with_progress_bar) made by the step just
    \* taken, in order: [label |-> "request", "download" or "switch", secs |-> n]
    slept,
    \* what the account's posts feed and stories feed hold, newest first, when
    \* the feeds are the same from one scan to the next
    posts_feed, stories_feed,
    \* history: how many times check_account has scanned these feeds, and
    \* whether the first time the posts scan succeeded on the whole listing and
    \* the stories scan succeeded: [n |-> 0..2, posts |-> BOOLEAN, stories |-> BOOLEAN]
    checked

feed_vars == <<posts_feed, stories_feed, checked>>

prog_vars == <<disk, pc, launch, archive, scan_only_mode, auto_mode, scan_range,
               acct_idx, new_posts, new_stories, account_results, REQUEST_SLEEP,
               menu_account, last_save, ops, invoked, run_failed, DOWNLOAD_SLEEP,
               slept, feed_vars>>

\* max_range=None
NoRange == -1

\* python truth value of max_range: None and 0 are false
Truthy(r) == r # NoRange /\ r # 0

(***************************************************************************)
(* run_gallery_dl_scan_posts                                               *)
(***************************************************************************)
\* lines 308-315: the locals before the loop
ScanLocalsInit ==
    [ media_list |-> <<>>, duplicate_count |-> 0, stopped_early |-> FALSE,
      new_content_count |-> 0, last_post_id |-> None, post_index |-> 0,
      media_index |-> 0, break |-> FALSE, raised |-> FALSE ]

\* line 350: duplicate_count >= max_duplicates; comparing an int with a str
\* raises TypeError
CompareRaises(max_duplicates) == max_duplicates.kind # "int"
ReachedThreshold(duplicate_count, max_duplicates) ==
    max_duplicates.kind = "int" /\ duplicate_count >= max_duplicates.val

\* mutant: membership of the full id instead of the post id
IsDuplicate_ByFullId(p, downloaded) == p.filename \in downloaded

\* line 343: the candidate counts as already downloaded
IsDuplicate(p, downloaded) == p.post_id \in DownloadedPostIds(downloaded)

\* mutant: the threshold test is > instead of >=
OnDuplicate_Strict(st, is_new_post, max_duplicates) ==
    IF is_new_post
    THEN LET dc == st.duplicate_count + 1
         IN  IF CompareRaises(max_duplicates)
             THEN [st EXCEPT !.duplicate_count = dc, !.raised = TRUE]
             ELSE IF dc > max_duplicates.val
             THEN [st EXCEPT !.duplicate_count = dc, !.stopped_early = TRUE,
                             !.break = TRUE]
             ELSE [st EXCEPT !.duplicate_count = dc]
    ELSE st

\* mutant: every duplicate candidate raises the streak, first of its group or not
OnDuplicate_CountsAll(st, is_new_post, max_duplicates) ==
    LET dc == st.duplicate_count + 1
    IN  IF CompareRaises(max_duplicates)
        THEN [st EXCEPT !.duplicate_count = dc, !.raised = TRUE]
        ELSE IF ReachedThreshold(dc, max_duplicates)
        THEN [st EXCEPT !.duplicate_count = dc, !.stopped_early = TRUE,
                        !.break = TRUE]
        ELSE [st EXCEPT !.duplicate_count = dc]

\* lines 345-353: a duplicate candidate
OnDuplicate(st, is_new_post, max_duplicates) ==
    IF is_new_post
    THEN LET dc == st.duplicate_count + 1
         IN  IF CompareRaises(max_duplicates)
             THEN [st EXCEPT !.duplicate_count = dc, !.raised = TRUE]
             ELSE IF ReachedThreshold(dc, max_duplicates)
             THEN [st EXCEPT !.duplicate_count = dc, !.stopped_early = TRUE,
                             !.break = TRUE]
             ELSE [st EXCEPT !.duplicate_count = dc]
    ELSE st

\* mutant: a new candidate clears the streak
OnNew_ResetsStreak(st, p, range) ==
    LET item == [ id |-> p.id, post_id |-> p.post_id,
                  post_index |-> st.post_index, media_index |-> st.media_index,
                  filename |-> p.filename, type |-> "post",
                  media_type |-> p.media_type ]
        st1 == [st EXCEPT !.new_content_count = @ + 1,
                          !.media_list = Append(@, item),
                          !.duplicate_count = 0]
    IN  IF Truthy(range) /\ st.media_index >= range
        THEN [st1 EXCEPT !.stopped_early = TRUE, !.break = TRUE]
        ELSE st1

\* mutant: the range cap leaves the loop without setting stopped_early
OnNew_SilentCap(st, p, range) ==
    LET item == [ id |-> p.id, post_id |-> p.post_id,
                  post_index |-> st.post_index, media_index |-> st.media_index,
                  filename |-> p.filename, type |-> "post",
                  media_type |-> p.media_type ]
        st1 == [st EXCEPT !.new_content_count = @ + 1,
                          !.media_list = Append(@, item)]
    IN  IF Truthy(range) /\ st.media_index >= range
        THEN [st1 EXCEPT !.break = TRUE]
        ELSE st1

\* lines 355-377: a new candidate
OnNew(st, p, range) ==
    LET item == [ id |-> p.id, post_id |-> p.post_id,
                  post_index |-> st.post_index, media_index |-> st.media_index,
                  filename |-> p.filename, type |-> "post",
                  media_type |-> p.media_type ]
        st1 == [st EXCEPT !.new_content_count = @ + 1,
                          !.media_list = Append(@, item)]
    IN  IF Truthy(range) /\ st.media_index >= range
        THEN [st1 EXCEPT !.stopped_early = TRUE, !.break = TRUE]
        ELSE st1

\* mutant: every line of the listing takes a position, media or not
PostsLoopBody_CountsEveryLine(st, raw, downloaded, max_duplicates, range) ==
    LET p == ParsePostLine(raw)
    IN  IF ~p.is_media THEN [st EXCEPT !.media_index = @ + 1]
        ELSE LET is_new_post == p.post_id # st.last_post_id
                 st1 == [st EXCEPT
                           !.last_post_id = p.post_id,
                           !.media_index = @ + 1,
                           !.post_index = IF is_new_post THEN @ + 1 ELSE @]
             IN  IF IsDuplicate(p, downloaded)
                 THEN OnDuplicate(st1, is_new_post, max_duplicates)
                 ELSE OnNew(st1, p, range)

\* lines 317-377: one iteration of the for loop over the listing's lines
PostsLoopBody(st, raw, downloaded, max_duplicates, range) ==
    LET p == ParsePostLine(raw)
    IN  IF ~p.is_media THEN st
        ELSE LET is_new_post == p.post_id # st.last_post_id
                 st1 == [st EXCEPT
                           !.last_post_id = p.post_id,
                           !.media_index = @ + 1,
                           !.post_index = IF is_new_post THEN @ + 1 ELSE @]
             IN  IF IsDuplicate(p, downloaded)
                 THEN OnDuplicate(st1, is_new_post, max_duplicates)
                 ELSE OnNew(st1, p, range)

\* lines 388-389, 391-396: what the function returns
PostsReturn(st, rc) ==
    [ media_list |-> st.media_list,
      success |-> (Len(st.media_list) > 0 \/ rc = 0),
      stopped_early |-> st.stopped_early ]
PostsFailed == [ media_list |-> <<>>, success |-> FALSE, stopped_early |-> FALSE ]
NoReturn == [ media_list |-> <<>>, success |-> FALSE, stopped_early |-> FALSE ]

\* the whole for loop from line i on (used where a scan is one step of a run):
\* the locals at its end and the loop position
RECURSIVE PostsLoopFrom(_, _, _, _, _, _)
PostsLoopFrom(st, out, i, downloaded, max_duplicates, range) ==
    IF i > Len(out) \/ st.break \/ st.raised THEN <<st, i>>
    ELSE PostsLoopFrom(PostsLoopBody(st, out[i], downloaded, max_duplicates, range),
                       out, i + 1, downloaded, max_duplicates, range)

(***************************************************************************)
(* What the listing subprocess can answer.                                 *)
(***************************************************************************)
BoundedSeqs(S, n) == UNION { [1..k -> S] : k \in 0..n }

GenericLines == {Line_1_1, Line_1_2, Line_2, Line_3}

\* six posts of one media each, newest first
LongFeed == <<Line_1_1, Line_2, Line_3, Line_4, Line_5, Line_6>>

PostsFeeds ==
    BoundedSeqs(GenericLines, MaxFeedLen)
      \cup { LongFeed, <<Line_Junk, Line_3>>, <<Line_2, Line_Junk, Line_2>> }

\* subprocess.run ended (with an exit code), timed out, or could not start
PostsOutcomes ==
    { [kind |-> "done", stdout |-> f, returncode |-> 0] : f \in PostsFeeds }
      \cup { [kind |-> "done", stdout |-> f, returncode |-> 1] :
                f \in BoundedSeqs(GenericLines, 1) }
      \cup { [kind |-> "timeout", stdout |-> <<>>, returncode |-> 0],
             [kind |-> "error", stdout |-> <<>>, returncode |-> 0] }

\* lines 297-315: run the listing; a timeout or an error returns at once
PostsScanInvoke ==
    /\ scan_pc = "call"
    /\ \E o \in PostsOutcomes :
         /\ stdout' = o.stdout
         /\ returncode' = o.returncode
         /\ IF o.kind = "done"
            THEN scan_pc' = "loop" /\ scan_ret' = scan_ret
            ELSE scan_pc' = "returned" /\ scan_ret' = PostsFailed
    /\ line_no' = 1
    /\ scan' = ScanLocalsInit
    /\ UNCHANGED <<MAX_CONSECUTIVE_DUPLICATES, downloaded_ids, max_range>>
    /\ UNCHANGED prog_vars

\* lines 317-377: the loop handles the next line; an exception leaves through
\* the handler of lines 394-396
PostsScanLine ==
    /\ scan_pc = "loop"
    /\ line_no <= Len(stdout)
    /\ ~scan.break
    /\ LET st == PostsLoopBody(scan, stdout[line_no], downloaded_ids,
                               MAX_CONSECUTIVE_DUPLICATES, max_range)
       IN  /\ scan' = st
           /\ IF st.raised
              THEN scan_pc' = "returned" /\ scan_ret' = PostsFailed
              ELSE UNCHANGED <<scan_pc, scan_ret>>
    /\ line_no' = line_no + 1
    /\ UNCHANGED <<MAX_CONSECUTIVE_DUPLICATES, downloaded_ids, max_range, stdout,
                   returncode>>
    /\ UNCHANGED prog_vars

\* lines 379-389: the loop is over (exhausted or left by break)
PostsScanReturn ==
    /\ scan_pc = "loop"
    /\ (line_no > Len(stdout) \/ scan.break)
    /\ scan_pc' = "returned"
    /\ scan_ret' = PostsReturn(scan, returncode)
    /\ UNCHANGED <<MAX_CONSECUTIVE_DUPLICATES, downloaded_ids, max_range, stdout,
                   returncode, line_no, scan>>
    /\ UNCHANGED prog_vars

(***************************************************************************)
(* The archive document: load_archive, save_archive, update_archive.       *)
(***************************************************************************)
\* the dict {}
EmptyDict == [a \in {} |-> <<>>]

\* d[k] = v on a dict
Put(d, k, v) == [x \in (DOMAIN d) \cup {k} |-> IF x = k THEN v ELSE d[x]]

\* del d[k]
Del(d, k) == [x \in (DOMAIN d) \ {k} |-> d[x]]

\* archive.get(account, {}).get(key, [])
GetIds(d, account, key) == IF account \in DOMAIN d THEN d[account][key] ELSE <<>>

JsonDoc(d) == [kind |-> "json", data |-> d]

\* mutant: a corrupt document makes load_archive raise
LoadArchive_Raises(doc) ==
    IF doc.kind = "json" THEN [raised |-> FALSE, archive |-> doc.data]
    ELSE IF doc.kind = "missing" THEN [raised |-> FALSE, archive |-> EmptyDict]
    ELSE [raised |-> TRUE, archive |-> EmptyDict]

\* load_archive (lines 219-239): the parsed document; {} for a missing file, an
\* empty file, a JSONDecodeError or any other error of the read
LoadArchive(doc) ==
    IF doc.kind = "missing" THEN [raised |-> FALSE, archive |-> EmptyDict]
    ELSE IF doc.kind = "unreadable" THEN [raised |-> FALSE, archive |-> EmptyDict]
    ELSE IF doc.kind = "empty" THEN [raised |-> FALSE, archive |-> EmptyDict]
    ELSE IF doc.kind = "garbage" THEN [raised |-> FALSE, archive |-> EmptyDict]
    ELSE [raised |-> FALSE, archive |-> doc.data]

\* how a write of the document can end: written; open() refused (the file is
\* untouched); or stopped after open(..., 'w') truncated the file, before any
\* text ("truncated") or part-way through json.dump ("partial")
SaveOutcomes == {"ok", "denied", "truncated", "partial"}

\* save_archive (lines 242-249): open(archive_path, 'w') and json.dump into it
SaveArchive(doc, a, outcome) ==
    IF outcome = "ok" THEN [raised |-> FALSE, disk |-> JsonDoc(a)]
    ELSE IF outcome = "denied" THEN [raised |-> TRUE, disk |-> doc]
    ELSE IF outcome = "truncated"
    THEN [raised |-> TRUE, disk |-> [kind |-> "empty", data |-> EmptyDict]]
    ELSE [raised |-> TRUE, disk |-> [kind |-> "garbage", data |-> EmptyDict]]

\* mutant: the merge archives the ids without their extension
Filenames_Ids(items) == [i \in 1..Len(items) |-> items[i].id]

\* [m["filename"] for m in items]
Filenames(items) == [i \in 1..Len(items) |-> items[i].filename]

\* mutant: the ids are appended without collapsing duplicates
MergeIds_NoDedup(old, items) == old \o Filenames(items)

\* lines 561-563, 566-568: extend, then list(dict.fromkeys(...))
MergeIds(old, items) == DictFromKeys(old \o Filenames(items))

\* mutant: the merge starts from an empty archive instead of the loaded one
MergedArchive_NoLoad(a, account, posts, stories) ==
    Put(EmptyDict, account,
        [posts |-> MergeIds(<<>>, posts), stories |-> MergeIds(<<>>, stories)])

\* lines 557-568 of update_archive: the archive after the merge
MergedArchive(a, account, posts, stories) ==
    LET a1 == IF account \notin DOMAIN a
              THEN Put(a, account, [posts |-> <<>>, stories |-> <<>>])
              ELSE a
    IN  Put(a1, account,
            [posts |-> MergeIds(a1[account].posts, posts),
             stories |-> MergeIds(a1[account].stories, stories)])

\* update_archive (lines 553-573): load, merge, save
UpdateArchive(doc, account, posts, stories, outcome) ==
    LET loaded == LoadArchive(doc)
    IN  IF loaded.raised THEN [raised |-> TRUE, disk |-> doc, given |-> EmptyDict]
        ELSE LET a == MergedArchive(loaded.archive, account, posts, stories)
                 w == SaveArchive(doc, a, outcome)
             IN  [raised |-> w.raised, disk |-> w.disk, given |-> a]

\* history record of the last step that could call save_archive: what called
\* it ("none" when the operator declined) and how the write ended
SaveRecord(op, outcome) == [ op |-> op, outcome |-> outcome ]
NoSave == SaveRecord("none", "ok")

(***************************************************************************)
(* run_gallery_dl_scan_stories                                             *)
(***************************************************************************)
Story_7 == <<"7", ".", "j", "p", "g">>
Story_8 == <<"8", "_", "1", ".", "m", "p", "4">>
\* a media line whose id is not numeric
Story_X == <<"x", ".", "j", "p", "g">>

\* lines 436-446: normalise one output line of the stories listing
ParseStoryLine(raw) ==
    LET up == Upper(Strip(raw))
        line == IF StartsWith(up, <<"#", " ">>) THEN SubSeq(up, 3, Len(up)) ELSE up
        parts == RSplit1(line, ".")
        ext == IF Len(parts) = 2 THEN Lower(parts[2]) ELSE <<>>
    IN  [ is_media |-> /\ line # <<>>
                       /\ \E e \in MediaExts : Contains(Lower(line), e)
                       /\ IsDigit(Remove(parts[1], "_")),
          filename |-> line,
          id |-> parts[1],
          media_type |-> IF ext = <<"m", "p", "4">> THEN "video" ELSE "image" ]

\* lines 432-459: the loop over the listing; every line is examined
StoriesLoop(out, downloaded) ==
    LET F[i \in 0..Len(out)] ==
            IF i = 0 THEN <<>>
            ELSE LET p == ParseStoryLine(out[i])
                 IN  IF p.is_media /\ p.filename \notin downloaded
                     THEN Append(F[i - 1],
                                 [ id |-> p.id, filename |-> p.filename,
                                   type |-> "story", media_type |-> p.media_type ])
                     ELSE F[i - 1]
    IN  F[Len(out)]

\* lines 421-470: (media_list, success) for one outcome of the listing
StoriesScan(o, downloaded) ==
    IF o.kind = "done"
    THEN [ media_list |-> StoriesLoop(o.stdout, downloaded),
           success |-> (o.returncode = 0) ]
    ELSE [ media_list |-> <<>>, success |-> FALSE ]

\* lines 431-433: the locals before the loop
StoryLocalsInit == [ media_list |-> <<>>, total_scanned |-> 0 ]

\* mutant: once a duplicate was met, nothing more is emitted
StoriesLoopBody_StopsAfterDuplicate(st, raw, downloaded) ==
    LET p == ParseStoryLine(raw)
    IN  IF ~p.is_media THEN st
        ELSE IF p.filename \in downloaded \/ st.total_scanned > Len(st.media_list)
        THEN [st EXCEPT !.total_scanned = @ + 1]
        ELSE [st EXCEPT !.total_scanned = @ + 1,
                        !.media_list = Append(@, [ id |-> p.id, filename |-> p.filename,
                                                   type |-> "story",
                                                   media_type |-> p.media_type ])]

\* lines 435-459: one iteration of the for loop over the stories listing
StoriesLoopBody(st, raw, downloaded) ==
    LET p == ParseStoryLine(raw)
    IN  IF ~p.is_media THEN st
        ELSE IF p.filename \in downloaded
        THEN [st EXCEPT !.total_scanned = @ + 1]
        ELSE [st EXCEPT !.total_scanned = @ + 1,
                        !.media_list = Append(@, [ id |-> p.id, filename |-> p.filename,
                                                   type |-> "story",
                                                   media_type |-> p.media_type ])]

\* what run_gallery_dl_scan_stories returns on a timeout or an error
\* (lines 465-470)
StoriesFailed == [ media_list |-> <<>>, success |-> FALSE ]

\* longest generic stories listing (in lines) of a single stories scan
MaxStoryFeedLen == 3

\* archived and new stories mixed, three of one archived story among them
DenseStoryFeed == <<Story_7, Story_7, Story_8, Story_7, Story_X, Story_8>>

StoryFeeds ==
    BoundedSeqs({Story_7, Story_8, Story_X}, MaxStoryFeedLen) \cup { DenseStoryFeed }

StoryScanOutcomes ==
    { [kind |-> "done", stdout |-> f, returncode |-> rc] :
        f \in StoryFeeds, rc \in {0, 1} }
      \cup { [kind |-> "timeout", stdout |-> <<>>, returncode |-> 0] }

\* lines 421-433: run the stories listing; a timeout or an error returns at once
StoriesScanInvoke ==
    /\ scan_pc = "call"
    /\ \E o \in StoryScanOutcomes :
         /\ stdout' = o.stdout
         /\ returncode' = o.returncode
         /\ IF o.kind = "done"
            THEN scan_pc' = "loop" /\ scan_ret' = scan_ret
            ELSE scan_pc' = "returned" /\ scan_ret' = StoriesFailed
    /\ line_no' = 1
    /\ scan' = StoryLocalsInit
    /\ UNCHANGED <<MAX_CONSECUTIVE_DUPLICATES, downloaded_ids, max_range>>
    /\ UNCHANGED prog_vars

\* lines 435-459: the loop handles the next line; it has no break
StoriesScanLine ==
    /\ scan_pc = "loop"
    /\ line_no <= Len(stdout)
    /\ scan' = StoriesLoopBody(scan, stdout[line_no], downloaded_ids)
    /\ line_no' = line_no + 1
    /\ UNCHANGED <<MAX_CONSECUTIVE_DUPLICATES, downloaded_ids, max_range, stdout,
                   returncode, scan_pc, scan_ret>>
    /\ UNCHANGED prog_vars

\* lines 461-463: the listing is exhausted
StoriesScanReturn ==
    /\ scan_pc = "loop"
    /\ line_no > Len(stdout)
    /\ scan_pc' = "returned"
    /\ scan_ret' = [ media_list |-> scan.media_list, success |-> (returncode = 0) ]
    /\ UNCHANGED <<MAX_CONSECUTIVE_DUPLICATES, downloaded_ids, max_range, stdout,
                   returncode, line_no, scan>>
    /\ UNCHANGED prog_vars

\* longest stories listing (in lines) the environment produces
MaxStoryLen == 1

StoriesOutcomes ==
    { [kind |-> "done", stdout |-> f, returncode |-> 0] :
        f \in BoundedSeqs({Story_7}, MaxStoryLen) \cup {<<Story_X, Story_8>>} }
      \cup { [kind |-> "done", stdout |-> <<Story_7>>, returncode |-> 1],
             [kind |-> "timeout", stdout |-> <<>>, returncode |-> 0] }

(***************************************************************************)
(* The program: main, run_scan_and_download, check_account.                *)
(***************************************************************************)
\* config.ACCOUNTS
ACCOUNTS == <<"a1", "a2">>

\* what one behaviour may spend on main-menu choices and restarts: a run or
\* the clear menu counts two, a settings change or a restart one
MaxOps == 3
\* longest posts listing (in lines) during a run
MaxRunFeedLen == 2
\* largest scan range typed at the prompt of a run
MaxRunRange == 1

\* the whole of run_gallery_dl_scan_posts for one outcome of the listing: its
\* locals at the end, the loop position and what it returns
PostsScan(o, downloaded, max_duplicates, range) ==
    IF o.kind # "done"
    THEN [ locals |-> ScanLocalsInit, line_no |-> 1, ret |-> PostsFailed ]
    ELSE LET e == PostsLoopFrom(ScanLocalsInit, o.stdout, 1, downloaded,
                                max_duplicates, range)
         IN  [ locals |-> e[1], line_no |-> e[2],
               ret |-> IF e[1].raised THEN PostsFailed
                       ELSE PostsReturn(e[1], o.returncode) ]

\* a listing in which archived and new posts can alternate
GappedFeed == <<Line_1_1, Line_2, Line_1_2, Line_3>>

RunPostsOutcomes ==
    { [kind |-> "done", stdout |-> f, returncode |-> 0] :
        f \in BoundedSeqs({Line_2}, MaxRunFeedLen)
                \cup {<<Line_1_1, Line_1_2>>, GappedFeed} }
      \cup { [kind |-> "done", stdout |-> <<Line_2>>, returncode |-> 1],
             [kind |-> "timeout", stdout |-> <<>>, returncode |-> 0] }

\* int(text) of a text of digits
DigitValue(c) == CHOOSE n \in 0..9 : <<"0", "1", "2", "3", "4", "5", "6", "7", "8", "9">>[n + 1] = c
IntOf(s) ==
    LET F[i \in 0..Len(s)] == IF i = 0 THEN 0 ELSE 10 * F[i - 1] + DigitValue(s[i])
    IN  F[Len(s)]
\* str(n) for one digit
DigitText(n) == << <<"0", "1", "2", "3", "4", "5", "6", "7", "8", "9">>[n + 1] >>

\* what the operator can type at the scan-range prompt (line 2193)
RangeInputs == { <<>>, <<"x">> } \cup { DigitText(n) : n \in 0..MaxRunRange }

\* lines 2183-2198: scan_range from the prompt's input
ScanRangeOf(range_input) ==
    IF IsDigit(range_input) THEN IntOf(range_input) ELSE NoRange

\* configure_sleep_settings (lines 2082-2163): config.SLEEP_REQUEST (a text such
\* as "30-90") in auto mode, else the recommended pair or no pacing
SleepText == [kind |-> "str", min |-> 30, max |-> 90]
SleepRecommended == [kind |-> "pair", min |-> 30, max |-> 90]
SleepDisabled == [kind |-> "pair", min |-> 0, max |-> 0]
\* config.SLEEP_DOWNLOAD, the text "20-60", and the recommended download pair
DownloadSleepText == [kind |-> "str", min |-> 20, max |-> 60]
DownloadRecommended == [kind |-> "pair", min |-> 5, max |-> 15]
\* python max(a, b)
Max2(a, b) == IF a >= b THEN a ELSE b
\* lines 2134 and 2148: (max(0, lo), max(lo, hi)) from the two numbers typed
CustomPair(lo, hi) == [kind |-> "pair", min |-> Max2(0, lo), max |-> Max2(lo, hi)]
\* the (minimum, maximum) the operator types at the custom prompts
CustomInputs == { <<-1, -1>> }
\* the answers at the pacing prompt: recommended, no pacing, or custom numbers
SleepChoices ==
    { [request |-> SleepRecommended, download |-> DownloadRecommended],
      [request |-> SleepDisabled, download |-> SleepDisabled] }
      \cup { [request |-> CustomPair(i[1], i[2]), download |-> CustomPair(i[1], i[2])] :
                i \in CustomInputs }
ConfigureSleepSettings(auto, choice) ==
    IF auto THEN [request |-> SleepText, download |-> DownloadSleepText] ELSE choice

\* lines 519, 1033 and 2291: SLEEP[1] > 0 raises TypeError on a text
PacingCheckRaises(sleep) == sleep.kind = "str"

\* the same lines: the test SLEEP[1] > 0 on a pair
PacingDue(sleep) == sleep.kind = "pair" /\ sleep.max > 0

\* random.randint(a, b): a value of a..b (its two ends are drawn here); none
\* when a > b, where randint raises ValueError
RandInt(a, b) == IF a <= b THEN {a, b} ELSE {}
DrawRaises(sleep) == PacingDue(sleep) /\ RandInt(sleep.min, sleep.max) = {}

\* lines 519-521, 1033-1035, 2291-2293: the sleeps one pacing point can make
Sleeps(label, sleep) ==
    IF PacingDue(sleep)
    THEN { << [label |-> label, secs |-> n] >> : n \in RandInt(sleep.min, sleep.max) }
    ELSE { <<>> }

\* lines 2289-2293, after the for loop, where account is the last value of the
\* loop variable
AccountSwitchSleeps(account, sleep) ==
    IF account # ACCOUNTS[Len(ACCOUNTS)] THEN Sleeps("switch", sleep) ELSE { <<>> }

Launches == {"menu", "auto", "scan_only", "auto_scan_only"}

FreshResults == [a \in Range(ACCOUNTS) |-> [archived |-> FALSE, downloaded |-> FALSE]]

\* the locals of a run or of a menu, when none is active
LocalsAtRest ==
    /\ archive' = EmptyDict
    /\ scan_only_mode' = FALSE
    /\ auto_mode' = FALSE
    /\ scan_range' = NoRange
    /\ acct_idx' = 1
    /\ new_posts' = <<>>
    /\ new_stories' = <<>>
    /\ account_results' = FreshResults
    /\ run_failed' = FALSE
    /\ menu_account' = ""

\* main (lines 2432-2438, 2454-2462): where control goes when
\* run_scan_and_download returns
AfterRun == IF launch = "menu" THEN "main_menu" ELSE "exited"

\* an exception leaves main: the process ends
Crash ==
    /\ pc' = "crashed"
    /\ LocalsAtRest

\* mutant: the next account starts at its stories scan
NextAccount_SkipsPosts(made) ==
    IF acct_idx < Len(ACCOUNTS)
    THEN /\ pc' = "stories"
         /\ acct_idx' = acct_idx + 1
         /\ new_posts' = <<>>
         /\ new_stories' = <<>>
         /\ slept' = made
         /\ UNCHANGED <<archive, scan_only_mode, auto_mode, scan_range, menu_account>>
    ELSE /\ pc' = AfterRun
         /\ slept' \in { made \o sw :
                            sw \in AccountSwitchSleeps(ACCOUNTS[acct_idx], REQUEST_SLEEP) }
         /\ LocalsAtRest

\* lines 2225, 2286-2334: the for loop goes to the next account, or it is over
\* and the run ends after the pacing test of lines 2289-2293; made is what
\* the step has slept so far
NextAccount(made) ==
    IF acct_idx < Len(ACCOUNTS)
    THEN /\ pc' = "posts"
         /\ acct_idx' = acct_idx + 1
         /\ new_posts' = <<>>
         /\ new_stories' = <<>>
         /\ slept' = made
         /\ UNCHANGED <<archive, scan_only_mode, auto_mode, scan_range, menu_account>>
    ELSE /\ pc' = AfterRun
         /\ slept' \in { made \o sw :
                            sw \in AccountSwitchSleeps(ACCOUNTS[acct_idx], REQUEST_SLEEP) }
         /\ LocalsAtRest

\* lines 2166-2223: run_scan_and_download up to its for loop
StartRun ==
    /\ invoked' = <<>>
    /\ slept' = <<>>
    /\ pc = "main_menu"
    /\ ops + 2 <= MaxOps
    /\ \E so \in (IF launch = "menu" THEN BOOLEAN
                  ELSE {launch \in {"scan_only", "auto_scan_only"}}),
          choice \in SleepChoices, range_input \in RangeInputs, start \in BOOLEAN :
         LET auto == launch \in {"auto", "auto_scan_only"}
         IN  /\ auto => choice.request = SleepDisabled
             /\ ~(so /\ ~auto) => range_input = <<>>
             /\ (auto \/ so) => start
             /\ REQUEST_SLEEP' = ConfigureSleepSettings(auto, choice).request
             /\ DOWNLOAD_SLEEP' = ConfigureSleepSettings(auto, choice).download
             /\ UNCHANGED feed_vars
             /\ IF start /\ LoadArchive(disk).raised
                THEN Crash
                ELSE IF start
                THEN /\ pc' = "posts"
                     /\ archive' = LoadArchive(disk).archive
                     /\ scan_only_mode' = so
                     /\ auto_mode' = auto
                     /\ scan_range' = IF so /\ ~auto THEN ScanRangeOf(range_input)
                                      ELSE NoRange
                     /\ acct_idx' = 1
                     /\ new_posts' = <<>>
                     /\ new_stories' = <<>>
                     /\ account_results' = FreshResults
                     /\ run_failed' = FALSE
                     /\ menu_account' = ""
                ELSE /\ pc' = AfterRun
                     /\ LocalsAtRest
    /\ ops' = ops + 2
    /\ last_save' = NoSave
    /\ UNCHANGED <<disk, launch>>
    /\ UNCHANGED scan_vars

\* the frame of run_gallery_dl_scan_posts is gone once check_account goes on
ScanAtRest ==
    /\ downloaded_ids' = {}
    /\ max_range' = NoRange
    /\ stdout' = <<>>
    /\ returncode' = 0
    /\ line_no' = 1
    /\ scan' = ScanLocalsInit
    /\ scan_pc' = "idle"
    /\ scan_ret' = NoReturn

\* one subprocess.run of gallery-dl, as it ended
Call(what, range, ok) == [ what |-> what, range |-> range, ok |-> ok ]

\* the listing ended by itself with exit code 0
ListingOk(o) == o.kind = "done" /\ o.returncode = 0

\* check_account, lines 473-516: the posts scan of the current account
CheckAccountPosts ==
    /\ pc = "posts"
    /\ \E o \in RunPostsOutcomes :
         LET dl == Range(GetIds(archive, ACCOUNTS[acct_idx], "posts"))
             r == PostsScan(o, dl, MAX_CONSECUTIVE_DUPLICATES, scan_range)
         IN  /\ downloaded_ids' = dl
             /\ max_range' = scan_range
             /\ stdout' = o.stdout
             /\ returncode' = o.returncode
             /\ line_no' = r.line_no
             /\ scan' = r.locals
             /\ scan_pc' = "returned"
             /\ scan_ret' = r.ret
             /\ new_posts' = IF r.ret.success THEN r.ret.media_list ELSE <<>>
             /\ invoked' = << Call("scan_posts", <<>>, ListingOk(o)) >>
             /\ slept' = <<>>
             /\ run_failed' = (run_failed \/ ~ListingOk(o))
    /\ pc' = "stories"
    /\ last_save' = NoSave
    /\ UNCHANGED <<MAX_CONSECUTIVE_DUPLICATES, disk, launch, archive, scan_only_mode,
                   auto_mode, scan_range, acct_idx, new_stories, account_results,
                   REQUEST_SLEEP, DOWNLOAD_SLEEP, feed_vars, menu_account, ops>>

\* check_account, lines 518-550, and lines 2236-2245, 2286-2287 of the run: the
\* pacing check, the stories scan, and whether anything new was found
CheckAccountStories ==
    /\ pc = "stories"
    /\ IF PacingCheckRaises(REQUEST_SLEEP) \/ DrawRaises(REQUEST_SLEEP)
       THEN Crash /\ invoked' = <<>> /\ slept' = <<>>
       ELSE \E o \in StoriesOutcomes, made \in Sleeps("request", REQUEST_SLEEP) :
              LET r == StoriesScan(o, Range(GetIds(archive, ACCOUNTS[acct_idx], "stories")))
                  found == IF r.success THEN r.media_list ELSE <<>>
              IN  /\ invoked' = << Call("scan_stories", <<>>, ListingOk(o)) >>
                  /\ IF new_posts \o found # <<>>
                     THEN /\ pc' = "archive_prompt"
                          /\ new_stories' = found
                          /\ slept' = made
                          /\ run_failed' = (run_failed \/ ~ListingOk(o))
                          /\ UNCHANGED <<archive, scan_only_mode, auto_mode, scan_range,
                                         acct_idx, new_posts, account_results,
                                         menu_account>>
                     ELSE /\ NextAccount(made)
                          /\ IF acct_idx < Len(ACCOUNTS)
                             THEN /\ run_failed' = (run_failed \/ ~ListingOk(o))
                                  /\ UNCHANGED account_results
                             ELSE TRUE
    /\ ScanAtRest
    /\ last_save' = NoSave
    /\ UNCHANGED <<MAX_CONSECUTIVE_DUPLICATES, disk, launch, REQUEST_SLEEP,
                   DOWNLOAD_SLEEP, feed_vars, ops>>

\* mutant: a declined archive prompt merges all the same
SkipArchiveUpdate_Merges(doc, account, posts, stories) ==
    UpdateArchive(doc, account, posts, stories, "ok").disk

\* lines 2254-2255: the prompt was declined: the document is left alone
SkipArchiveUpdate(doc, account, posts, stories) == doc

\* mutant: scan-only mode goes on to the download prompt
SkipsDownload_Never(scan_only) == FALSE

\* lines 2257-2258: in scan-only mode the download is skipped
SkipsDownload(scan_only) == scan_only

\* lines 2247-2258: the archive prompt and update_archive; in scan-only mode
\* the account is finished
ArchivePrompt ==
    /\ invoked' = <<>>
    /\ pc = "archive_prompt"
    /\ \E answer \in (IF auto_mode \/ scan_only_mode THEN {TRUE} ELSE BOOLEAN),
          w \in SaveOutcomes :
         LET account == ACCOUNTS[acct_idx]
             u == UpdateArchive(disk, account, new_posts, new_stories, w)
         IN  IF answer
             THEN /\ disk' = u.disk
                  /\ last_save' = SaveRecord("merge", w)
                  /\ IF u.raised
                     THEN Crash /\ slept' = <<>>
                     ELSE IF SkipsDownload(scan_only_mode)
                     THEN /\ NextAccount(<<>>)
                          /\ IF acct_idx < Len(ACCOUNTS)
                             THEN /\ account_results' =
                                       [account_results EXCEPT ![account].archived = TRUE]
                                  /\ UNCHANGED run_failed
                             ELSE TRUE
                     ELSE /\ pc' = "download_prompt"
                          /\ slept' = <<>>
                          /\ account_results' =
                               [account_results EXCEPT ![account].archived = TRUE]
                          /\ UNCHANGED run_failed
                          /\ UNCHANGED <<archive, scan_only_mode, auto_mode, scan_range,
                                         acct_idx, new_posts, new_stories, menu_account>>
             ELSE /\ w = "ok"
                  /\ last_save' = NoSave
                  /\ disk' = SkipArchiveUpdate(disk, account, new_posts, new_stories)
                  /\ IF SkipsDownload(scan_only_mode)
                     THEN /\ NextAccount(<<>>)
                          /\ IF acct_idx < Len(ACCOUNTS)
                             THEN UNCHANGED <<account_results, run_failed>>
                             ELSE TRUE
                     ELSE /\ pc' = "download_prompt"
                          /\ slept' = <<>>
                          /\ UNCHANGED <<archive, scan_only_mode, auto_mode, scan_range,
                                         acct_idx, new_posts, new_stories,
                                         account_results, run_failed, menu_account>>
    /\ UNCHANGED <<launch, REQUEST_SLEEP, DOWNLOAD_SLEEP, feed_vars, ops>>
    /\ UNCHANGED scan_vars

\* min / max of m["media_index"] over the new posts (lines 2266-2267)
MinMediaIndex(items) ==
    CHOOSE n \in {items[i].media_index : i \in 1..Len(items)} :
        \A i \in 1..Len(items) : n <= items[i].media_index
MaxMediaIndex(items) ==
    CHOOSE n \in {items[i].media_index : i \in 1..Len(items)} :
        \A i \in 1..Len(items) : n >= items[i].media_index

\* mutant: the range always starts at the first media of the listing
PostsRange_FromOne(items) ==
    IF items # <<>> THEN <<1, MaxMediaIndex(items)>> ELSE <<>>

\* lines 2264-2272: the range handed to the posts download; <<>> is None
PostsRange(items) ==
    IF items # <<>> THEN <<MinMediaIndex(items), MaxMediaIndex(items)>> ELSE <<>>

\* mutant: the posts download is attempted whatever the range
PostsDownloadRuns_Always(posts_range) == TRUE

\* download_content_v2 line 985: the posts download is attempted
PostsDownloadRuns(posts_range) ==
    posts_range # <<>> /\ posts_range[1] > 0 /\ posts_range[2] >= posts_range[1]

\* download_content_v2 (lines 968-1097) for given outcomes of its two
\* subprocesses; data_dir is bound only inside the posts branch (line 989), so
\* the stories branch raises when the posts branch was skipped (line 1053)
DownloadContent(posts_range, new_stories_count, posts_ok, stories_ok, download_sleep) ==
    LET runs_posts == PostsDownloadRuns(posts_range)
        runs_stories == new_stories_count > 0
        \* lines 1033-1035, inside the try of the posts branch: an exception of
        \* the pacing test is taken for a failed download (lines 1045-1047)
        paces == runs_posts /\ posts_ok
        pacing_raises == paces /\ (PacingCheckRaises(download_sleep)
                                      \/ DrawRaises(download_sleep))
    IN  [ raised |-> runs_stories /\ ~runs_posts,
          posts_success |-> (~runs_posts \/ (posts_ok /\ ~pacing_raises)),
          stories_success |-> (~runs_stories \/ stories_ok),
          sleeps |-> IF paces /\ ~pacing_raises
                     THEN Sleeps("download", download_sleep) ELSE { <<>> },
          calls |-> (IF runs_posts
                     THEN << Call("download_posts", posts_range, posts_ok) >>
                     ELSE <<>>)
                    \o (IF runs_stories /\ runs_posts
                        THEN << Call("download_stories", <<>>, stories_ok) >>
                        ELSE <<>>) ]

\* lines 2259-2285: the download prompt and download_content_v2
DownloadPrompt ==
    /\ pc = "download_prompt"
    /\ \E answer \in (IF auto_mode THEN {TRUE} ELSE BOOLEAN),
          posts_ok \in BOOLEAN, stories_ok \in BOOLEAN :
         LET account == ACCOUNTS[acct_idx]
             posts_range == PostsRange(new_posts)
             d == DownloadContent(posts_range, Len(new_stories), posts_ok, stories_ok,
                                  DOWNLOAD_SLEEP)
         IN  /\ ~answer => (posts_ok /\ stories_ok)
             /\ (answer /\ ~PostsDownloadRuns(posts_range)) => posts_ok
             /\ (answer /\ (Len(new_stories) = 0 \/ d.raised)) => stories_ok
             /\ invoked' = IF answer THEN d.calls ELSE <<>>
             /\ IF answer /\ d.raised
                THEN Crash /\ slept' = <<>>
                ELSE /\ \E made \in (IF answer THEN d.sleeps ELSE { <<>> }) :
                          NextAccount(made)
                     /\ IF acct_idx < Len(ACCOUNTS)
                        THEN /\ account_results' =
                                  [account_results EXCEPT ![account].downloaded =
                                     answer /\ d.posts_success /\ d.stories_success]
                             /\ run_failed' =
                                  (run_failed \/ (answer /\ \E i \in 1..Len(d.calls) :
                                                                ~d.calls[i].ok))
                        ELSE TRUE
    /\ last_save' = NoSave
    /\ UNCHANGED <<disk, launch, REQUEST_SLEEP, DOWNLOAD_SLEEP, feed_vars, ops>>
    /\ UNCHANGED scan_vars

\* the process is started again
Restart ==
    /\ invoked' = <<>>
    /\ slept' = <<>>
    /\ pc \in {"crashed", "exited"}
    /\ ops < MaxOps
    /\ pc' = "main_menu"
    /\ launch' \in Launches
    /\ ops' = ops + 1
    /\ last_save' = NoSave
    /\ UNCHANGED <<disk, archive, scan_only_mode, auto_mode, scan_range, acct_idx,
                   new_posts, new_stories, account_results, run_failed, REQUEST_SLEEP,
                   DOWNLOAD_SLEEP, feed_vars,
                   menu_account>>
    /\ UNCHANGED scan_vars

(***************************************************************************)
(* clear_archive_menu                                                      *)
(***************************************************************************)
\* lines 1533-1558: the menu loads the archive once; an empty one returns
OpenClearMenu ==
    /\ invoked' = <<>>
    /\ slept' = <<>>
    /\ pc = "main_menu"
    /\ launch = "menu"
    /\ ops + 2 <= MaxOps
    /\ LET a == LoadArchive(disk).archive
       IN  IF LoadArchive(disk).raised
           THEN /\ pc' = "crashed"
                /\ UNCHANGED archive
           ELSE IF a = EmptyDict
           THEN /\ pc' = "main_menu"
                /\ UNCHANGED archive
           ELSE /\ pc' = "clear_top"
                /\ archive' = a
    /\ ops' = ops + 2
    /\ last_save' = NoSave
    /\ UNCHANGED <<disk, launch, scan_only_mode, auto_mode, scan_range, acct_idx,
                   new_posts, new_stories, account_results, run_failed, REQUEST_SLEEP,
                   DOWNLOAD_SLEEP, feed_vars,
                   menu_account>>
    /\ UNCHANGED scan_vars

\* lines 1563-1585: choice 1, confirmed: save_archive({}); the local archive is
\* left as it was loaded
ClearAll ==
    /\ invoked' = <<>>
    /\ slept' = <<>>
    /\ pc = "clear_top"
    /\ \E w \in SaveOutcomes :
         LET s == SaveArchive(disk, EmptyDict, w)
         IN  /\ disk' = s.disk
             /\ last_save' = SaveRecord("clear_all", w)
             /\ IF s.raised
                THEN Crash
                ELSE UNCHANGED <<pc, archive, scan_only_mode, auto_mode, scan_range,
                                 acct_idx, new_posts, new_stories, account_results, run_failed,
                                 menu_account>>
    /\ UNCHANGED <<launch, REQUEST_SLEEP, DOWNLOAD_SLEEP, feed_vars, ops>>
    /\ UNCHANGED scan_vars

\* line 1587: choice 2 enters the account loop
ClearChooseAccounts ==
    /\ invoked' = <<>>
    /\ slept' = <<>>
    /\ pc = "clear_top"
    /\ pc' = "clear_accounts"
    /\ last_save' = NoSave
    /\ UNCHANGED <<disk, launch, archive, scan_only_mode, auto_mode, scan_range,
                   acct_idx, new_posts, new_stories, account_results, run_failed, REQUEST_SLEEP,
                   DOWNLOAD_SLEEP, feed_vars,
                   menu_account, ops>>
    /\ UNCHANGED scan_vars

\* lines 1607-1609, 1633-1635, 1677-1683: B at the top, or M anywhere, returns
\* to the main menu
ClearReturn ==
    /\ invoked' = <<>>
    /\ slept' = <<>>
    /\ pc \in {"clear_top", "clear_accounts", "clear_types"}
    /\ pc' = "main_menu"
    /\ LocalsAtRest
    /\ last_save' = NoSave
    /\ UNCHANGED <<disk, launch, REQUEST_SLEEP, DOWNLOAD_SLEEP, feed_vars, ops>>
    /\ UNCHANGED scan_vars

\* lines 1603-1605, 1629-1631: B goes one level up
ClearBack ==
    /\ invoked' = <<>>
    /\ slept' = <<>>
    /\ pc \in {"clear_accounts", "clear_types"}
    /\ pc' = IF pc = "clear_types" THEN "clear_accounts" ELSE "clear_top"
    /\ last_save' = NoSave
    /\ UNCHANGED <<disk, launch, archive, scan_only_mode, auto_mode, scan_range,
                   acct_idx, new_posts, new_stories, account_results, run_failed, REQUEST_SLEEP,
                   DOWNLOAD_SLEEP, feed_vars,
                   menu_account, ops>>
    /\ UNCHANGED scan_vars

\* lines 1592-1613: an account of the local archive is picked
ClearPickAccount ==
    /\ invoked' = <<>>
    /\ slept' = <<>>
    /\ pc = "clear_accounts"
    /\ \E a \in DOMAIN archive : menu_account' = a
    /\ pc' = "clear_types"
    /\ last_save' = NoSave
    /\ UNCHANGED <<disk, launch, archive, scan_only_mode, auto_mode, scan_range,
                   acct_idx, new_posts, new_stories, account_results, run_failed, REQUEST_SLEEP,
                   DOWNLOAD_SLEEP, feed_vars, ops>>
    /\ UNCHANGED scan_vars

\* lines 1639, 1648, 1657: the local archive after the confirmed clear
ClearedArchive(a, account, what) ==
    IF what = "posts" THEN Put(a, account, [a[account] EXCEPT !.posts = <<>>])
    ELSE IF what = "stories" THEN Put(a, account, [a[account] EXCEPT !.stories = <<>>])
    ELSE Del(a, account)

\* lines 1637-1662: choice 1, 2 or 3, confirmed: the local archive is changed
\* and saved; the except clause of line 1673 swallows a KeyError (the account
\* was deleted before) or a failed save and returns to the account loop
ClearCategory ==
    /\ invoked' = <<>>
    /\ slept' = <<>>
    /\ pc = "clear_types"
    /\ \E what \in {"posts", "stories", "account"}, w \in SaveOutcomes :
         IF menu_account \notin DOMAIN archive
         THEN /\ w = "ok"
              /\ pc' = "clear_accounts"
              /\ last_save' = NoSave
              /\ UNCHANGED <<disk, archive>>
         ELSE LET a == ClearedArchive(archive, menu_account, what)
                  s == SaveArchive(disk, a, w)
              IN  /\ archive' = a
                  /\ disk' = s.disk
                  /\ last_save' = SaveRecord("clear_" \o what, w)
                  /\ pc' = IF s.raised THEN "clear_accounts" ELSE "clear_types"
    /\ UNCHANGED <<launch, scan_only_mode, auto_mode, scan_range, acct_idx, new_posts,
                   new_stories, account_results, run_failed, REQUEST_SLEEP,
                   DOWNLOAD_SLEEP, feed_vars, menu_account, ops>>
    /\ UNCHANGED scan_vars

(***************************************************************************)
(* settings_menu: the duplicate threshold                                  *)
(***************************************************************************)
\* DEFAULT_CONFIG["MAX_CONSECUTIVE_DUPLICATES"]
DefaultThreshold == 3

\* what the operator can type for the threshold
ThresholdInputs == { <<"2">>, <<"x">> }

\* int(new_val) succeeds (line 2063): digits with an optional sign
IsIntText(s) ==
    IF Len(s) > 0 /\ s[1] = "-" THEN IsDigit(Tail(s)) ELSE IsDigit(s)
IntOfText(s) == IF s[1] = "-" THEN 0 - IntOf(Tail(s)) ELSE IntOf(s)

\* lines 1951-2076: option 8: the text is validated with int() and stored as
\* typed; config.reload_config then puts the text in config.MAX_CONSECUTIVE_DUPLICATES
EditThreshold ==
    /\ invoked' = <<>>
    /\ slept' = <<>>
    /\ pc = "main_menu"
    /\ launch = "menu"
    /\ ops < MaxOps
    /\ \E new_val \in ThresholdInputs, saved \in BOOLEAN :
         /\ ~IsIntText(new_val) => saved
         /\ MAX_CONSECUTIVE_DUPLICATES' =
              IF IsIntText(new_val) /\ saved
              THEN [kind |-> "str", val |-> IntOfText(new_val)]
              ELSE MAX_CONSECUTIVE_DUPLICATES
    /\ ops' = ops + 1
    /\ UNCHANGED <<downloaded_ids, max_range, stdout, returncode, line_no, scan,
                   scan_pc, scan_ret>>
    /\ last_save' = NoSave
    /\ UNCHANGED <<disk, pc, launch, archive, scan_only_mode, auto_mode, scan_range,
                   acct_idx, new_posts, new_stories, account_results, run_failed, REQUEST_SLEEP,
                   DOWNLOAD_SLEEP, feed_vars,
                   menu_account>>

\* lines 1931-1940: R, confirmed: the defaults are written and reloaded
ResetSettings ==
    /\ invoked' = <<>>
    /\ slept' = <<>>
    /\ pc = "main_menu"
    /\ launch = "menu"
    /\ ops < MaxOps
    /\ MAX_CONSECUTIVE_DUPLICATES' = [kind |-> "int", val |-> DefaultThreshold]
    /\ ops' = ops + 1
    /\ UNCHANGED <<downloaded_ids, max_range, stdout, returncode, line_no, scan,
                   scan_pc, scan_ret>>
    /\ last_save' = NoSave
    /\ UNCHANGED <<disk, pc, launch, archive, scan_only_mode, auto_mode, scan_range,
                   acct_idx, new_posts, new_stories, account_results, run_failed, REQUEST_SLEEP,
                   DOWNLOAD_SLEEP, feed_vars,
                   menu_account>>

(***************************************************************************)
(* Two scans of an account's unchanged feeds, with the merge between them. *)
(***************************************************************************)
\* no feed has been scanned
NoCheck == [n |-> 0, posts |-> FALSE, stories |-> FALSE]

FeedsAtRest ==
    /\ posts_feed = <<>>
    /\ stories_feed = <<>>
    /\ checked = NoCheck

\* lines 288-291: with a max_range gallery-dl is given --range 1-N and lists
\* the first N media files of the feed only
Listing(feed, range) ==
    IF Truthy(range) /\ range < Len(feed) THEN SubSeq(feed, 1, range) ELSE feed

\* what subprocess.run can deliver for a listing: all its lines with exit
\* status 0; the lines printed before gallery-dl gave up with exit status 1;
\* or nothing, when the timeout ends it
ListingResults(lines) ==
    { [kind |-> "done", stdout |-> lines, returncode |-> 0],
      [kind |-> "timeout", stdout |-> <<>>, returncode |-> 0] }
      \cup { [kind |-> "done", stdout |-> SubSeq(lines, 1, k), returncode |-> 1] :
                k \in 0..Len(lines) }

\* longest posts feed (in media files)
MaxRescanFeedLen == 3
\* largest scan range
MaxRescanRange == 2

\* the feeds, thresholds and ranges of the two scans
RescanPostsFeeds == BoundedSeqs({Line_1_1, Line_1_2, Line_2}, MaxRescanFeedLen)
RescanStoryFeeds == { <<>>, <<Story_7, Story_8>> }
RescanThresholds ==
    { [kind |-> "int", val |-> v] : v \in 1..2 } \cup { [kind |-> "str", val |-> 2] }
RescanRanges == {NoRange} \cup 0..MaxRescanRange

\* check_account (lines 486-550) on the feeds: the posts scan, then the
\* stories scan, each list kept only when its scan succeeded
CheckAccountOnFeeds ==
    /\ pc = "posts"
    /\ \E po \in ListingResults(Listing(posts_feed, scan_range)),
          so \in ListingResults(stories_feed) :
         LET account == ACCOUNTS[acct_idx]
             p == PostsScan(po, Range(GetIds(archive, account, "posts")),
                            MAX_CONSECUTIVE_DUPLICATES, scan_range)
             s == StoriesScan(so, Range(GetIds(archive, account, "stories")))
         IN  /\ new_posts' = IF p.ret.success THEN p.ret.media_list ELSE <<>>
             /\ new_stories' = IF s.success THEN s.media_list ELSE <<>>
             /\ invoked' = << Call("scan_posts", <<>>, ListingOk(po)),
                              Call("scan_stories", <<>>, ListingOk(so)) >>
             /\ checked' = IF checked.n = 0
                           THEN [n |-> 1,
                                 posts |-> p.ret.success
                                             /\ Len(po.stdout) = Len(Listing(posts_feed,
                                                                             scan_range)),
                                 stories |-> s.success]
                           ELSE [checked EXCEPT !.n = @ + 1]
    /\ pc' = "archive_prompt"
    /\ slept' = <<>>
    /\ last_save' = NoSave
    /\ UNCHANGED <<disk, launch, archive, scan_only_mode, auto_mode, scan_range,
                   acct_idx, account_results, REQUEST_SLEEP, DOWNLOAD_SLEEP,
                   menu_account, ops, run_failed, posts_feed, stories_feed>>
    /\ UNCHANGED scan_vars

\* lines 2239-2258 in scan-only mode, after the first scan of the feeds: what
\* was found is merged by update_archive and the run is over
MergeFeedsScan ==
    /\ pc = "archive_prompt"
    /\ checked.n = 1
    /\ new_posts \o new_stories # <<>>
    /\ \E w \in SaveOutcomes :
         LET u == UpdateArchive(disk, ACCOUNTS[acct_idx], new_posts, new_stories, w)
         IN  /\ disk' = u.disk
             /\ last_save' = SaveRecord("merge", w)
             /\ pc' = IF u.raised THEN "crashed" ELSE "main_menu"
    /\ invoked' = <<>>
    /\ slept' = <<>>
    /\ UNCHANGED <<launch, archive, scan_only_mode, auto_mode, scan_range, acct_idx,
                   new_posts, new_stories, account_results, REQUEST_SLEEP,
                   DOWNLOAD_SLEEP, menu_account, ops, run_failed, feed_vars>>
    /\ UNCHANGED scan_vars

\* lines 2166-2223: the next run, with the same scan range: the archive is
\* loaded again (line 2220) and the account is scanned again
RescanStart ==
    /\ pc = "main_menu"
    /\ checked.n = 1
    /\ archive' = LoadArchive(disk).archive
    /\ new_posts' = <<>>
    /\ new_stories' = <<>>
    /\ pc' = "posts"
    /\ invoked' = <<>>
    /\ slept' = <<>>
    /\ last_save' = NoSave
    /\ UNCHANGED <<disk, launch, scan_only_mode, auto_mode, scan_range, acct_idx,
                   account_results, REQUEST_SLEEP, DOWNLOAD_SLEEP, menu_account, ops,
                   run_failed, feed_vars>>
    /\ UNCHANGED scan_vars

(***************************************************************************)
(* The program at rest, and its initial documents.                         *)
(***************************************************************************)
ProgramAtRest ==
    /\ disk = JsonDoc(EmptyDict)
    /\ pc = "main_menu"
    /\ launch = "menu"
    /\ archive = EmptyDict
    /\ scan_only_mode = FALSE
    /\ auto_mode = FALSE
    /\ scan_range = NoRange
    /\ acct_idx = 1
    /\ new_posts = <<>>
    /\ new_stories = <<>>
    /\ account_results = FreshResults
    /\ REQUEST_SLEEP = SleepDisabled
    /\ DOWNLOAD_SLEEP = SleepDisabled
    /\ FeedsAtRest
    /\ slept = <<>>
    /\ menu_account = ""
    /\ last_save = NoSave
    /\ ops = 0
    /\ invoked = <<>>
    /\ run_failed = FALSE

(***************************************************************************)
(* One posts scan, any archive, threshold and range.                       *)
(***************************************************************************)
\* the full id (filename) the scan derives from a listing line
FilenameOf(raw) == ParsePostLine(raw).filename

\* archived ids a scan can be called with
LongArchive == { FilenameOf(l) : l \in {Line_1_1, Line_2, Line_4, Line_5, Line_6} }
ScanArchives ==
    SUBSET { FilenameOf(l) : l \in {Line_1_1, Line_2} } \cup { LongArchive }

\* thresholds: the integers of settings.json, or the text the settings menu stores
ThresholdValues ==
    { [kind |-> "int", val |-> n] : n \in 1..MaxThreshold }
      \cup { [kind |-> "str", val |-> 2] }

RangeValues == {NoRange} \cup 0..MaxRange

vars == <<scan_vars, prog_vars>>

InitScan ==
    /\ MAX_CONSECUTIVE_DUPLICATES \in ThresholdValues
    /\ downloaded_ids \in ScanArchives
    /\ max_range \in RangeValues
    /\ stdout = <<>>
    /\ returncode = 0
    /\ line_no = 1
    /\ scan = ScanLocalsInit
    /\ scan_pc = "call"
    /\ scan_ret = NoReturn
    /\ ProgramAtRest

NextScan == PostsScanInvoke \/ PostsScanLine \/ PostsScanReturn

SpecScan == InitScan /\ [][NextScan]_vars

(***************************************************************************)
(* One stories scan, any archive.                                          *)
(***************************************************************************)
\* archived story ids a scan can be called with
StoryArchives == SUBSET { ParseStoryLine(l).filename : l \in {Story_7, Story_8} }

InitStories ==
    /\ MAX_CONSECUTIVE_DUPLICATES = [kind |-> "int", val |-> DefaultThreshold]
    /\ downloaded_ids \in StoryArchives
    /\ max_range = NoRange
    /\ stdout = <<>>
    /\ returncode = 0
    /\ line_no = 1
    /\ scan = StoryLocalsInit
    /\ scan_pc = "call"
    /\ scan_ret = StoriesFailed
    /\ ProgramAtRest

NextStories == StoriesScanInvoke \/ StoriesScanLine \/ StoriesScanReturn

SpecStories == InitStories /\ [][NextStories]_vars

(***************************************************************************)
(* The whole program.                                                      *)
(***************************************************************************)
\* archives left by earlier runs
ArchiveA ==
    Put(Put(EmptyDict, "a1", [posts |-> <<FilenameOf(Line_1_1)>>,
                               stories |-> <<FilenameOf(Story_7)>>]),
        "a2", [posts |-> <<FilenameOf(Line_2)>>, stories |-> <<>>])
\* documents the program can find at its start; the unreadable one holds an
\* archive that open() or read() fails to deliver
InitDocs ==
    { [kind |-> k, data |-> EmptyDict] : k \in {"missing", "empty", "garbage"} }
      \cup { [kind |-> "unreadable", data |-> ArchiveA],
             JsonDoc(EmptyDict), JsonDoc(ArchiveA) }

\* thresholds of settings.json at the start
RunThresholds == { [kind |-> "int", val |-> DefaultThreshold] }

Init ==
    /\ MAX_CONSECUTIVE_DUPLICATES \in RunThresholds
    /\ downloaded_ids = {}
    /\ max_range = NoRange
    /\ stdout = <<>>
    /\ returncode = 0
    /\ line_no = 1
    /\ scan = ScanLocalsInit
    /\ scan_pc = "idle"
    /\ scan_ret = NoReturn
    /\ disk \in InitDocs
    /\ pc = "main_menu"
    /\ launch \in Launches
    /\ archive = EmptyDict
    /\ scan_only_mode = FALSE
    /\ auto_mode = FALSE
    /\ scan_range = NoRange
    /\ acct_idx = 1
    /\ new_posts = <<>>
    /\ new_stories = <<>>
    /\ account_results = FreshResults
    /\ REQUEST_SLEEP = SleepDisabled
    /\ DOWNLOAD_SLEEP = SleepDisabled
    /\ FeedsAtRest
    /\ slept = <<>>
    /\ menu_account = ""
    /\ last_save = NoSave
    /\ ops = 0
    /\ invoked = <<>>
    /\ run_failed = FALSE

Next ==
    \/ StartRun
    \/ CheckAccountPosts
    \/ CheckAccountStories
    \/ ArchivePrompt
    \/ DownloadPrompt
    \/ Restart
    \/ OpenClearMenu
    \/ ClearAll
    \/ ClearChooseAccounts
    \/ ClearReturn
    \/ ClearBack
    \/ ClearPickAccount
    \/ ClearCategory
    \/ EditThreshold
    \/ ResetSettings

Spec == Init /\ [][Next]_vars

(***************************************************************************)
(* Two scans of the same feeds.                                            *)
(***************************************************************************)
InitRescan ==
    /\ MAX_CONSECUTIVE_DUPLICATES \in RescanThresholds
    /\ downloaded_ids = {}
    /\ max_range = NoRange
    /\ stdout = <<>>
    /\ returncode = 0
    /\ line_no = 1
    /\ scan = ScanLocalsInit
    /\ scan_pc = "idle"
    /\ scan_ret = NoReturn
    /\ disk \in {JsonDoc(EmptyDict), JsonDoc(ArchiveA)}
    /\ pc = "posts"
    /\ launch = "menu"
    /\ archive = LoadArchive(disk).archive
    /\ scan_only_mode = TRUE
    /\ auto_mode = FALSE
    /\ scan_range \in RescanRanges
    /\ acct_idx = 1
    /\ new_posts = <<>>
    /\ new_stories = <<>>
    /\ account_results = FreshResults
    /\ REQUEST_SLEEP = SleepDisabled
    /\ DOWNLOAD_SLEEP = SleepDisabled
    /\ posts_feed \in RescanPostsFeeds
    /\ stories_feed \in RescanStoryFeeds
    /\ checked = NoCheck
    /\ slept = <<>>
    /\ menu_account = ""
    /\ last_save = NoSave
    /\ ops = 0
    /\ invoked = <<>>
    /\ run_failed = FALSE

NextRescan == CheckAccountOnFeeds \/ MergeFeedsScan \/ RescanStart

SpecRescan == InitRescan /\ [][NextRescan]_vars

(***************************************************************************)
(* Claims about one posts scan (checked under SpecScan).                   *)
(***************************************************************************)
\* the streak has reached the configured threshold
StreakReached ==
    /\ MAX_CONSECUTIVE_DUPLICATES.kind = "int"
    /\ scan.duplicate_count >= MAX_CONSECUTIVE_DUPLICATES.val

\* the scan appended a new item at a position >= a configured max_range
RangeCapHit ==
    /\ max_range # NoRange
    /\ max_range # 0
    /\ Len(scan.media_list) > 0
    /\ scan.media_list[Len(scan.media_list)].media_index >= max_range

\* C1 as stated: a returned posts scan reports stopped_early = true if and
\* only if the duplicate streak has reached MAX_CONSECUTIVE_DUPLICATES.
C1_StoppedIffStreak ==
    scan_pc = "returned" => (scan_ret.stopped_early <=> StreakReached)

\* C1 amended: a returned posts scan reports stopped_early = true if and only
\* if the duplicate streak has reached MAX_CONSECUTIVE_DUPLICATES or the scan
\* appended a new item at a position >= a configured (non-zero) max_range.
C1_StoppedIffStreakOrCap ==
    scan_pc = "returned" =>
        (scan_ret.stopped_early <=> (StreakReached \/ RangeCapHit))

\* C1 witness: a scan that found new items and stopped on the streak alone
C1_Witness ==
    /\ scan_pc = "returned"
    /\ scan_ret.stopped_early
    /\ StreakReached
    /\ ~RangeCapHit
    /\ Len(scan_ret.media_list) > 0

\* C2: during one posts scan the duplicate streak never decreases, and a step
\* that appends a new item leaves it unchanged.
C2_StreakMonotone ==
    [][ scan_pc = "loop" =>
          /\ scan'.duplicate_count >= scan.duplicate_count
          /\ (Len(scan'.media_list) > Len(scan.media_list) =>
                scan'.duplicate_count = scan.duplicate_count) ]_vars

\* C2 witness: duplicate, new item, duplicate: the streak is 2 across the new item
C2_Witness ==
    /\ scan_pc = "loop"
    /\ scan.duplicate_count = 2
    /\ scan.media_index = 3
    /\ Len(scan.media_list) = 1
    /\ scan.media_list[1].media_index = 2

\* the loop is about to handle a media line
AtCandidate ==
    /\ scan_pc = "loop"
    /\ line_no <= Len(stdout)
    /\ ~scan.break
    /\ ParsePostLine(stdout[line_no]).is_media

\* the post id of an archived full id: the part before the first underscore
\* of the id without its suffix
ArchivedPostId(f) == SplitFirst(RSplit1(f, ".")[1], "_")

\* C3 as stated: a candidate is a duplicate (not appended) exactly when its
\* full id is an element of the archived posts ids.
C3_DuplicateIffFullIdArchived ==
    [][ AtCandidate =>
          ((scan'.media_list = scan.media_list) <=>
             (ParsePostLine(stdout[line_no]).filename \in downloaded_ids)) ]_vars

\* C3 amended: a candidate is a duplicate (not appended) exactly when its
\* post id (group id) is the post id of some archived full id; otherwise it is
\* appended with its full id.
C3_DuplicateIffPostIdArchived ==
    [][ AtCandidate =>
          LET p == ParsePostLine(stdout[line_no])
              dup == \E f \in downloaded_ids : ArchivedPostId(f) = p.post_id
          IN  /\ dup => scan'.media_list = scan.media_list
              /\ ~dup =>
                   /\ Len(scan'.media_list) = Len(scan.media_list) + 1
                   /\ scan'.media_list[Len(scan'.media_list)].filename = p.filename
        ]_vars

\* C3 witness: a never-archived full id of an archived post was skipped
C3_Witness ==
    /\ scan_pc = "loop"
    /\ line_no = 2
    /\ stdout[1] = Line_1_2
    /\ FilenameOf(Line_1_2) \notin downloaded_ids
    /\ FilenameOf(Line_1_1) \in downloaded_ids
    /\ scan.media_list = <<>>
    /\ scan.duplicate_count = 1

\* the feed D1, D2, N1, D3, D4, D5 under threshold 3, no range cap
C4_Scenario ==
    /\ stdout = LongFeed
    /\ downloaded_ids = LongArchive
    /\ MAX_CONSECUTIVE_DUPLICATES = [kind |-> "int", val |-> 3]
    /\ ~Truthy(max_range)
    /\ scan_pc = "returned"

\* C4 as stated: the scan halts at D4 with streak 4 after 5 groups.
C4_HaltsAtD4 ==
    C4_Scenario =>
        /\ scan.duplicate_count = 4
        /\ scan.post_index = 5
        /\ scan.last_post_id = <<"5">>

\* C4 amended: the scan halts at D3 with streak 3, after 3 duplicate groups
\* and 1 new group, i.e. 4 groups in total, having emitted N1 only.
C4_HaltsAtD3 ==
    C4_Scenario =>
        /\ scan_ret.stopped_early
        /\ scan.duplicate_count = 3
        /\ scan.post_index = 4
        /\ scan.last_post_id = <<"4">>
        /\ Len(scan_ret.media_list) = 1
        /\ scan_ret.media_list[1].filename = FilenameOf(Line_3)
        /\ scan_ret.media_list[1].post_index = 3

\* C4 witness: the scenario's scan has returned
C4_Witness == C4_Scenario /\ scan_ret.stopped_early /\ line_no = 5

(***************************************************************************)
(* Claims about the archive document (specification Spec).                 *)
(***************************************************************************)
\* the archive a read of the document delivers
Loaded(doc) == LoadArchive(doc).archive

\* the ids the document holds for an account and a category, delivered or not
PersistedIds(doc, account, key) ==
    IF doc.kind \in {"json", "unreadable"} THEN Range(GetIds(doc.data, account, key))
    ELSE {}

\* all accounts a document or the configuration names
AllAccounts(doc1, doc2) == Range(ACCOUNTS) \cup DOMAIN doc1.data \cup DOMAIN doc2.data

Categories == {"posts", "stories"}

NoRepeats(ids) == \A i, j \in 1..Len(ids) : ids[i] = ids[j] => i = j

\* the step just taken was update_archive and its write was completed
MergedOk == last_save.op = "merge" /\ last_save.outcome = "ok"

\* C5: merging the same new posts and new stories for the account a second
\* time leaves the document, for every account, as the first merge left it.
C5_MergeIdempotent ==
    [][ MergedOk' =>
          LET again == UpdateArchive(disk', ACCOUNTS[acct_idx], new_posts,
                                     new_stories, "ok")
          IN  ~again.raised /\ again.disk = disk' ]_vars

\* a completed merge whose new items name one id twice
C5_Witness ==
    /\ MergedOk
    /\ pc = "download_prompt"
    /\ Len(new_posts) = 2
    /\ new_posts[1].filename = new_posts[2].filename
    /\ new_posts[1].filename \in PersistedIds(disk, ACCOUNTS[acct_idx], "posts")

\* C6: after a completed merge of X for an account, a load delivers for that
\* account exactly the ids a load delivered before, together with X, each once.
C6_RoundTrip ==
    [][ MergedOk' =>
          LET account == ACCOUNTS[acct_idx]
              before == Loaded(disk)
              after == Loaded(disk')
          IN  /\ Range(GetIds(after, account, "posts")) =
                   Range(GetIds(before, account, "posts")) \cup Range(Filenames(new_posts))
              /\ Range(GetIds(after, account, "stories")) =
                   Range(GetIds(before, account, "stories")) \cup Range(Filenames(new_stories))
              /\ NoRepeats(GetIds(after, account, "posts"))
              /\ NoRepeats(GetIds(after, account, "stories")) ]_vars

\* a completed merge that added new ids to ids already in the document
C6_Witness ==
    /\ MergedOk
    /\ pc = "download_prompt"
    /\ new_posts # <<>>
    /\ GetIds(archive, ACCOUNTS[acct_idx], "posts") # <<>>
    /\ Len(GetIds(Loaded(disk), ACCOUNTS[acct_idx], "posts")) >
         Len(GetIds(archive, ACCOUNTS[acct_idx], "posts"))

\* the step just taken was a clear the operator confirmed
ConfirmedClear ==
    last_save.op \in {"clear_all", "clear_posts", "clear_stories", "clear_account"}

\* C7: no step other than a confirmed clear removes an id from the posts or
\* stories the document holds for an account.
C7_IdsOnlyGrow ==
    [][ ~ConfirmedClear' =>
          \A a \in AllAccounts(disk, disk'), k \in Categories :
              PersistedIds(disk, a, k) \subseteq PersistedIds(disk', a, k) ]_vars

\* the step just taken cleared one category of menu_account and wrote the document
ClearedOne(key) == last_save.op = "clear_" \o key /\ last_save.outcome = "ok"

\* C8: a completed clear of one category of an account leaves that category
\* empty and every other set of the document as it was before the clear.
C8_ClearOneCategoryOnly ==
    [][ \A key \in Categories :
          ClearedOne(key)' =>
            /\ PersistedIds(disk', menu_account, key) = {}
            /\ \A a \in AllAccounts(disk, disk'), k \in Categories :
                  (a # menu_account \/ k # key) =>
                     PersistedIds(disk', a, k) = PersistedIds(disk, a, k) ]_vars

\* documents that are not a well-formed archive
NotWellFormed == {"empty", "garbage", "unreadable"}

\* C9: load_archive delivers the empty archive, and does not raise, for an
\* empty, unparseable or unreadable document; the run that starts on such a
\* document goes on, and its posts scans are given no archived ids.
C9_CorruptLoadsEmpty ==
    [][ /\ disk.kind \in NotWellFormed =>
             /\ ~LoadArchive(disk).raised
             /\ LoadArchive(disk).archive = EmptyDict
        /\ (disk.kind \in NotWellFormed /\ pc = "main_menu" /\ pc' \notin {"main_menu", "exited"}) =>
             /\ pc' = "posts"
             /\ archive' = EmptyDict
        /\ (pc = "posts" /\ archive = EmptyDict) =>
             /\ pc' = "stories"
             /\ scan_pc' = "returned"
             /\ downloaded_ids' = {} ]_vars

\* a posts scan found new media in a run that started on such a document
C9_Witness ==
    /\ disk.kind \in NotWellFormed
    /\ pc = "stories"
    /\ scan_pc = "returned"
    /\ downloaded_ids = {}
    /\ scan_ret.success
    /\ scan_ret.media_list # <<>>

\* C10: after update_archive, whether or not its write was completed, the
\* document is the complete previous one or the complete merged one.
C10_NoPartialDocument ==
    [][ last_save'.op = "merge" =>
          \/ disk' = disk
          \/ disk' = JsonDoc(MergedArchive(Loaded(disk), ACCOUNTS[acct_idx],
                                           new_posts, new_stories)) ]_vars

(***************************************************************************)
(* Claims about the download step and the run (specification Spec).        *)
(***************************************************************************)
\* the media positions of a list of new posts
Positions(items) == { items[i].media_index : i \in 1..Len(items) }

\* the names of the invocations a step made, in order
Whats(calls) == [ i \in 1..Len(calls) |-> calls[i].what ]

\* C11: for a non-empty list of new posts the posts download is given the
\* range (start, end) with start the least and end the greatest media
\* position of the new posts, so every position lies in the range.
C11_RangeIsMinMax ==
    [][ (pc = "download_prompt" /\ new_posts # <<>> /\ invoked' # <<>>) =>
          LET c == invoked'[1]
          IN  /\ c.what = "download_posts"
              /\ Len(c.range) = 2
              /\ c.range[1] \in Positions(new_posts)
              /\ c.range[2] \in Positions(new_posts)
              /\ \A q \in Positions(new_posts) : c.range[1] <= q /\ q <= c.range[2] ]_vars

\* a posts download over the positions 2 and 4, with an archived post between
C11_Witness ==
    /\ invoked # <<>>
    /\ invoked[1].what = "download_posts"
    /\ invoked[1].range = <<2, 4>>

\* C12: while the account's new posts are empty, no range is produced and no
\* step invokes the posts download.
C12_NoPostsNoDownload ==
    [][ new_posts = <<>> =>
          /\ PostsRange(new_posts) = <<>>
          /\ \A i \in 1..Len(invoked') : invoked'[i].what # "download_posts" ]_vars

\* a download was confirmed for an account with new stories and no new post:
\* the step made no invocation (and left main by the exception of line 1053)
C12_Witness ==
    /\ pc = "crashed"
    /\ invoked = <<>>
    /\ last_save = NoSave
    /\ REQUEST_SLEEP.kind = "pair"

\* the step just taken answered yes at the download prompt
DownloadConfirmed == invoked # <<>> \/ pc = "crashed"

\* C13: a confirmed download for an account with a new story invokes the
\* stories download, without a range, and comes back with a result.
C13_StoriesAlwaysDownloaded ==
    [][ (pc = "download_prompt" /\ new_stories # <<>> /\ DownloadConfirmed') =>
          /\ pc' # "crashed"
          /\ \E i \in 1..Len(invoked') :
                invoked'[i].what = "download_stories" /\ invoked'[i].range = <<>> ]_vars

\* C14: once an external invocation of a run has failed, no step of that run
\* ends the process: the loop goes on to the later accounts.
C14_FailureNeverAborts ==
    [][ (run_failed \/ \E i \in 1..Len(invoked') : ~invoked'[i].ok) =>
          pc' # "crashed" ]_vars

\* C15: a merge whose write fails leaves the document as it was, the account
\* not archived, and the run going.
C15_FailedPersistSkipsAccount ==
    [][ (last_save'.op = "merge" /\ last_save'.outcome # "ok") =>
          /\ disk' = disk
          /\ pc' # "crashed"
          /\ ~account_results'[ACCOUNTS[acct_idx]].archived ]_vars

\* the phases of an account's pipeline
RunPhases == {"posts", "stories", "archive_prompt", "download_prompt"}

\* the step ends the pipeline of the account: the next account starts at its
\* posts scan, or the run is over after the last account
GoesOn ==
    \/ pc' = "posts" /\ acct_idx < Len(ACCOUNTS) /\ acct_idx' = acct_idx + 1
    \/ pc' = AfterRun /\ acct_idx = Len(ACCOUNTS)

\* C16: the phases of an account follow in the order posts scan, stories scan,
\* archive prompt, download prompt; an account starts only when the one before
\* is done; a step's invocations are made one after the other, listing first.
C16_PhasesInOrder ==
    [][ /\ pc = "posts" =>
              /\ pc' = "stories" /\ acct_idx' = acct_idx
              /\ Whats(invoked') = <<"scan_posts">>
        /\ pc = "stories" =>
              /\ \/ pc' = "archive_prompt" /\ acct_idx' = acct_idx
                 \/ GoesOn
                 \/ pc' = "crashed"
              /\ Whats(invoked') \in { <<>>, <<"scan_stories">> }
        /\ pc = "archive_prompt" =>
              /\ \/ pc' = "download_prompt" /\ acct_idx' = acct_idx /\ ~scan_only_mode
                 \/ GoesOn /\ scan_only_mode
                 \/ pc' = "crashed"
              /\ invoked' = <<>>
        /\ pc = "download_prompt" =>
              /\ GoesOn \/ pc' = "crashed"
              /\ Whats(invoked') \in { <<>>, <<"download_posts">>,
                                       <<"download_posts", "download_stories">> }
        /\ (pc' \in RunPhases /\ pc \notin RunPhases) =>
              pc = "main_menu" /\ pc' = "posts" /\ acct_idx' = 1
        /\ pc \notin RunPhases => invoked' = <<>> ]_vars

\* the second account is at its download prompt after the first one was
\* scanned, archived and downloaded
C16_Witness ==
    /\ pc = "download_prompt"
    /\ acct_idx = 2
    /\ account_results[ACCOUNTS[1]].archived
    /\ account_results[ACCOUNTS[1]].downloaded

\* C17: during a run the document changes only in the step of the archive
\* prompt, by update_archive; a declined prompt leaves it as it was.
C17_OnlyMergeWrites ==
    [][ (pc \in RunPhases) =>
          /\ (disk' # disk) => (pc = "archive_prompt" /\ last_save'.op = "merge")
          /\ (pc = "archive_prompt" /\ last_save'.op = "none") => (disk' = disk) ]_vars

\* the operator declined the archive prompt of an account with a new post
\* the document does not hold
C17_Witness ==
    /\ pc = "download_prompt"
    /\ last_save.op = "none"
    /\ new_posts # <<>>
    /\ new_posts[1].filename \notin PersistedIds(disk, ACCOUNTS[acct_idx], "posts")
    /\ ~account_results[ACCOUNTS[acct_idx]].archived

\* C18: new posts and stories whose download failed are new again for the
\* next run: a scan against the document as the step leaves it would not
\* take them for downloaded.
C18_FailedDownloadRetried ==
    [][ (pc = "download_prompt" /\ \E i \in 1..Len(invoked') : ~invoked'[i].ok) =>
          LET account == ACCOUNTS[acct_idx]
              failed(w) == \E i \in 1..Len(invoked') :
                              invoked'[i].what = w /\ ~invoked'[i].ok
          IN  /\ failed("download_posts") =>
                    \A j \in 1..Len(new_posts) :
                        ~IsDuplicate(new_posts[j],
                                     Range(GetIds(Loaded(disk'), account, "posts")))
              /\ failed("download_stories") =>
                    \A j \in 1..Len(new_stories) :
                        new_stories[j].filename \notin
                            Range(GetIds(Loaded(disk'), account, "stories")) ]_vars

(***************************************************************************)
(* More claims about one posts scan (specification SpecScan).              *)
(***************************************************************************)
\* the lines of the listing the loop has examined that name a media file
Examined == { i \in 1..(line_no - 1) : ParsePostLine(stdout[i]).is_media }

\* C19: the positions given to the candidates of a scan are 1..N, N the
\* number of candidates examined so far: each candidate takes the next
\* position, and the emitted items carry theirs in increasing order.
C19_PositionsDense ==
    scan_pc \in {"loop", "returned"} =>
        /\ scan.media_index = Cardinality(Examined)
        /\ \A k \in 1..Len(scan.media_list) :
              /\ scan.media_list[k].media_index \in 1..scan.media_index
              /\ k > 1 => scan.media_list[k - 1].media_index
                             < scan.media_list[k].media_index
        /\ Len(scan.media_list) + scan.duplicate_count <= scan.media_index

\* a listing with a line that names no media, two candidates examined
C19_Witness ==
    /\ scan_pc = "returned"
    /\ \E i \in 1..Len(stdout) : ~ParsePostLine(stdout[i]).is_media
    /\ scan.media_index = 2
    /\ Len(scan.media_list) = 2

\* the step appends a new item at a position that is at or past the cap
AppendsAtCap(configured) ==
    /\ scan_pc = "loop"
    /\ configured
    /\ Len(scan'.media_list) = Len(scan.media_list) + 1
    /\ scan'.media_index >= max_range

\* the scan stops right there: nothing more is examined and the result holds
\* the item and reports stopped_early
StopsAtOnce ==
    /\ scan'.break
    /\ scan'.stopped_early
    /\ scan'.media_list[Len(scan'.media_list)].media_index = scan'.media_index

\* C20: with a max_range given (any number, 0 included: line 2194 takes every
\* digit string), the scan stops with stopped_early right after appending the
\* first new item at a position >= max_range, and examines nothing more.
C20_CapStopsScan ==
    [][ /\ AppendsAtCap(max_range # NoRange) => StopsAtOnce
        /\ scan.break => (line_no' = line_no /\ scan' = scan) ]_vars

\* what lines 373-377 do give: a max_range that is not zero stops the scan at
\* once, and a stopped scan returns what it has
NonZeroCapStopsScan ==
    [][ /\ AppendsAtCap(Truthy(max_range)) => StopsAtOnce
        /\ scan.break =>
              /\ line_no' = line_no /\ scan' = scan
              /\ scan_ret'.media_list = scan.media_list
              /\ scan_ret'.stopped_early ]_vars

\* the candidate the loop is about to handle
Candidate == ParsePostLine(stdout[line_no])

\* the loop is about to handle a media line of an archived group
AtDuplicate ==
    /\ scan_pc = "loop"
    /\ line_no <= Len(stdout)
    /\ ~scan.break
    /\ Candidate.is_media
    /\ IsDuplicate(Candidate, downloaded_ids)

\* an earlier line of this scan was a candidate of the same group
GroupSeenBefore == \E j \in Examined : ParsePostLine(stdout[j]).post_id = Candidate.post_id

\* the step leaves the streak and the result as they are, and goes on
StreakAndResultKept ==
    /\ scan'.duplicate_count = scan.duplicate_count
    /\ scan'.media_list = scan.media_list
    /\ ~scan'.break /\ ~scan'.raised

\* C22 as stated: a candidate of an archived group that is not the first
\* candidate of its group in this scan leaves the streak unchanged and is not
\* emitted.
C22_OnlyFirstOfGroupCounts ==
    [][ (AtDuplicate /\ GroupSeenBefore) => StreakAndResultKept ]_vars

\* C22, amended: a candidate of an archived group that directly follows a
\* candidate of the same group (post_id = last_post_id) leaves the streak
\* unchanged and is not emitted; a candidate of an archived group that comes
\* after a candidate of another group raises the streak by one.
C22_OnlyFirstOfRunCounts ==
    [][ AtDuplicate =>
          IF Candidate.post_id = scan.last_post_id
          THEN StreakAndResultKept
          ELSE /\ scan'.duplicate_count = scan.duplicate_count + 1
               /\ scan'.media_list = scan.media_list ]_vars

\* the second media of an archived sidecar was passed over: two candidates
\* examined, the streak at one
C22_Witness ==
    /\ scan_pc = "loop"
    /\ line_no = 3
    /\ stdout[1] = Line_1_1 /\ stdout[2] = Line_1_2
    /\ FilenameOf(Line_1_1) \in downloaded_ids
    /\ scan.media_index = 2
    /\ scan.duplicate_count = 1
    /\ scan.media_list = <<>>

\* C28: with a max_range given, no item of the scan's result has a media
\* position greater than max_range.
C28_NoItemPastCap ==
    max_range # NoRange =>
        \A k \in 1..Len(scan.media_list) : scan.media_list[k].media_index <= max_range

(***************************************************************************)
(* Claims about one stories scan (specification SpecStories).              *)
(***************************************************************************)
\* the listing lines that are story candidates (media with a numeric id)
\* whose full id is not archived, in listing order
UnarchivedStoryLines ==
    SelectSeq(stdout, LAMBDA l : /\ ParseStoryLine(l).is_media
                                 /\ ParseStoryLine(l).filename \notin downloaded_ids)

\* C21: the stories scan leaves its loop only at the end of the listing, and
\* what it has emitted is, in listing order, exactly the candidates whose full
\* id is not archived, however many archived candidates it met.
C21_StoriesScannedInFull ==
    scan_pc = "returned" =>
        /\ line_no = Len(stdout) + 1
        /\ Len(scan_ret.media_list) = Len(UnarchivedStoryLines)
        /\ \A k \in 1..Len(scan_ret.media_list) :
              scan_ret.media_list[k].filename
                  = ParseStoryLine(UnarchivedStoryLines[k]).filename
        /\ scan_ret.media_list = StoriesLoop(stdout, downloaded_ids)

\* a listing with three archived stories around two new ones, read to its end
C21_Witness ==
    /\ scan_pc = "returned"
    /\ stdout = DenseStoryFeed
    /\ downloaded_ids = { ParseStoryLine(Story_7).filename }
    /\ scan.total_scanned = 5
    /\ Len(scan_ret.media_list) = 2

(***************************************************************************)
(* Claims about the settings, the modes and the pacing of a run            *)
(* (specification Spec).                                                   *)
(***************************************************************************)
\* C23: whatever the operator has typed in the settings menu, the duplicate
\* threshold in effect is a positive integer: an input that is not one is
\* rejected and the value before it is kept.
C23_ThresholdAlwaysValid ==
    /\ MAX_CONSECUTIVE_DUPLICATES.kind = "int"
    /\ MAX_CONSECUTIVE_DUPLICATES.val >= 1

\* the calls that list a feed
Listings == {"scan_posts", "scan_stories"}

\* C24: in scan-only mode no step of a run invokes a download: a step makes
\* listing invocations only, writes the archive by a merge only, and never
\* comes to the download prompt.
C24_ScanOnlyNeverDownloads ==
    [][ (scan_only_mode /\ pc \in RunPhases) =>
           /\ \A i \in 1..Len(invoked') : invoked'[i].what \in Listings
           /\ last_save'.op \in {NoSave.op, "merge"}
           /\ pc' # "download_prompt" ]_vars

\* a scan-only run has merged what it found for the first account and goes on
\* to the second
C24_Witness ==
    /\ scan_only_mode
    /\ pc = "posts"
    /\ acct_idx = 2
    /\ MergedOk
    /\ PersistedIds(disk, ACCOUNTS[1], "posts") # {}

\* the step finishes an account that is not the last one
FinishesAccount == pc \in RunPhases /\ acct_idx' = acct_idx + 1

\* C25: with request pacing enabled, a step that finishes an account other
\* than the last sleeps for the account switch, between min and max seconds,
\* before the next account's posts scan.
C25_SleepsBetweenAccounts ==
    [][ (FinishesAccount /\ PacingDue(REQUEST_SLEEP)) =>
           \E i \in 1..Len(slept') :
              /\ slept'[i].label = "switch"
              /\ slept'[i].secs \in REQUEST_SLEEP.min..REQUEST_SLEEP.max ]_vars

\* the groups of the ids the run's archive holds for the account being scanned
ArchivedGroups ==
    { ArchivedPostId(f) : f \in Range(GetIds(archive, ACCOUNTS[acct_idx], "posts")) }

\* the ids of the account's posts that the step has added to the document
AddedPostIds ==
    PersistedIds(disk', ACCOUNTS[acct_idx], "posts")
        \ PersistedIds(disk, ACCOUNTS[acct_idx], "posts")

\* C26: a posts scan of a run appends no candidate whose group id is the
\* group id of an archived id, whether or not the candidate's own full id is
\* archived, and the merge of that scan adds no id of such a group.
C26_ArchivedGroupNeverEmitted ==
    [][ /\ (pc = "posts") =>
              \A i \in 1..Len(new_posts') : new_posts'[i].post_id \notin ArchivedGroups
        /\ (pc = "archive_prompt" /\ MergedOk') =>
              /\ \A i \in 1..Len(new_posts) : new_posts[i].post_id \notin ArchivedGroups
              /\ \A f \in AddedPostIds : ArchivedPostId(f) \notin ArchivedGroups ]_vars

\* the listing 1_1, 2, 1_2, 3 was scanned with 1_1 archived and its two new
\* posts were merged: 1_2, of the archived group 1, is not in the document
C26_Witness ==
    /\ pc = "download_prompt"
    /\ MergedOk
    /\ Len(new_posts) = 2
    /\ FilenameOf(Line_1_1) \in PersistedIds(disk, ACCOUNTS[acct_idx], "posts")
    /\ FilenameOf(Line_3) \in PersistedIds(disk, ACCOUNTS[acct_idx], "posts")
    /\ FilenameOf(Line_1_2) \notin PersistedIds(disk, ACCOUNTS[acct_idx], "posts")

\* the positions of the clear-archive menu
ClearMenu == {"clear_top", "clear_accounts", "clear_types"}

\* C29: in a session of the clear-archive menu, once the persisted archive
\* has been emptied, no later step of the session gives an id back to it: a
\* per-account clear after "clear all" leaves the document without ids.
C29_ClearedStaysCleared ==
    [][ (pc \in ClearMenu /\ disk = JsonDoc(EmptyDict)) =>
           \A a \in AllAccounts(disk, disk'), k \in Categories :
               PersistedIds(disk', a, k) = {} ]_vars

\* what configure_sleep_settings is said to return: a pair of non-negative
\* integers in order
WellFormedPair(sleep) ==
    sleep.kind = "pair" /\ 0 <= sleep.min /\ sleep.min <= sleep.max

\* C30: in every mode the request and download pacing settings of a run are
\* pairs (min, max) of non-negative integers with min <= max, and the pacing
\* test between an account's posts scan and its stories scan never ends the
\* run.
C30_PacingWellDefined ==
    [][ /\ WellFormedPair(REQUEST_SLEEP')
        /\ WellFormedPair(DOWNLOAD_SLEEP')
        /\ (pc = "stories") => pc' # "crashed" ]_vars

(***************************************************************************)
(* Claims about a re-scan (specification SpecRescan).                      *)
(***************************************************************************)
\* check_account has scanned the feeds a second time, after the merge of what
\* the first scan found
Rescanned == checked.n = 2 /\ pc = "archive_prompt"

=============================================================================
